---- MODULE Spec2Model ----
(***************************************************************************)
(* State-machine model of the LEO constellation simulation                 *)
(* (Satellite.cc, GroundStation.cc) running on the OMNeT++ kernel.         *)
(*                                                                         *)
(* The kernel is modelled by a future event set `fes` ordered by arrival   *)
(* time and, at equal times, by insertion order.  Times are kept relative  *)
(* to the current simulation time (dt = arrival time - simTime()), so the  *)
(* test "channel busy" (simTime() < txFinishTime) reads busy > 0.          *)
(* One action per handleMessage branch; a handler runs to completion.      *)
(***************************************************************************)
EXTENDS Integers, Sequences, FiniteSets, TLC

\* ------------------------------------------------------------- network
Sats == {1, 2, 3, 4}          \* satelliteId of the Satellite modules
GSs == {99, 101}              \* address of the GroundStation modules
Nodes == Sats \cup GSs
NoNode == 0                   \* nullptr cModule

\* ------------------------------------------------------------- bounds
MaxPkts == 5                  \* data packets created in one run
MaxGates == 3                 \* size a satellite's gate array may grow to
MaxHops == 3                  \* forwards of one packet
maxQueueSize == 2             \* txQueue capacity (1000 in the scenario files)

\* ------------------------------------------------------------- constants
TickPeriod == 4               \* the 1.0 s of updateTimer / handoverTimer
GsLinkCost == 500             \* distance assumed for a ground-station gate
SpeedOfLight == 1             \* 299792.458 km/s, in model units
ProcessingDelay == 2          \* the 1 ms processing delay, in model units
GsTxDuration == 3             \* packet bit length / 4e9, in model units

\* The ISL channels of the network description: datarate channel, fixed delay.
IslChannel == [delay |-> 1, dur |-> 2]

VARIABLES
  fes,                  \* future event set: sequence of [dt, kind, node, msg]
  phase,                \* simTime() modulo TickPeriod
  tick,                 \* whole ticks elapsed, as far as the orbits distinguish them
  toInit,               \* modules whose initialize() has not run yet, in order
  finished,             \* modules whose finish() has run, in order
  scn,                  \* the scenario: network and module parameters
  crashed,              \* a cRuntimeError ended the simulation
  txQueue,              \* txQueue[n]: sequence of [msg, gate]
  satGates,             \* satGates[s]: radioOut gate array of satellite s
  neighbors,            \* neighbors[s]: sequence of [node, distance, gate]
  routingTable,         \* routingTable[s]: sequence of [dest, nextHop, cost]
  gsGateSize,           \* gateSize("groundLink") of ground station g
  gsLink,               \* groundLink$o[0] of g and its channel
  currentSatellite,     \* currentSatellite[g], NoNode when null
  currentSatGateIndex,  \* currentSatGateIndex[g]
  packetsSent,          \* packetsSent[g]
  packetsReceived,      \* packetsReceived[n]
  packetsForwarded,     \* packetsForwarded[s]
  packetsDropped,       \* packetsDropped[n]
  created,              \* history: data packets created that left a trace
  uncounted,            \* history: data packets deleted or lost without a counter
  log                   \* history: what the last handler did, in order

vars == <<fes, phase, tick, toInit, finished, scn, crashed, txQueue, satGates,
          neighbors, routingTable, gsGateSize, gsLink, currentSatellite,
          currentSatGateIndex, packetsSent, packetsReceived, packetsForwarded,
          packetsDropped, created, uncounted, log>>

\* ------------------------------------------------------------- helpers
Abs(x) == IF x < 0 THEN -x ELSE x
Min(S) == CHOOSE x \in S : \A y \in S : x <= y
Max0(x) == IF x < 0 THEN 0 ELSE x

\* The element of a one-element set.  An operator below that works on the
\* world w0 it is given is written Once({body : w \in {w0}}): the body with
\* w0 computed once and named w.
Once(S) == CHOOSE x \in S : TRUE

RECURSIVE SumOver(_, _)
SumOver(f, S) ==
  IF S = {} THEN 0
  ELSE LET x == CHOOSE y \in S : TRUE IN f[x] + SumOver(f, S \ {x})

\* ------------------------------------------------------------- messages
NoMsg == [type |-> "none", name |-> "", src |-> 0, dst |-> 0, id |-> 0, hop |-> 0,
          adv |-> <<>>, fwd |-> <<>>]

\* DataPacket: hopCount starts at 0; fwd is history (the satellites that
\* forwarded the packet), not a field of the program.
DataPacket(src, dst, id) ==
  [type |-> "data", name |-> "", src |-> src, dst |-> dst, id |-> id, hop |-> 0,
   adv |-> <<>>, fwd |-> <<>>]

\* RoutingMessage: sourceId and the parallel vectors destIds / costs.
RoutingMessage(src, adv) ==
  [type |-> "routing", name |-> "", src |-> src, dst |-> 0, id |-> 0, hop |-> 0,
   adv |-> adv, fwd |-> <<>>]

\* A plain cMessage: neither a DataPacket nor a RoutingMessage; the handlers
\* read its name only (the names of the other messages are not kept).
PlainMessage(name) == [NoMsg EXCEPT !.type = "plain", !.name = name]

\* An entry of the history log: the operation, the node, the message and
\* gate it concerned, and for "adv" the routing table before the operation.
Logged(op, n, m, gi, rt) ==
  [op |-> op, node |-> n, msg |-> m, gate |-> gi, before |-> rt]

\* ------------------------------------------------------------- kernel
Ev(dt, kind, node, msg) == [dt |-> dt, kind |-> kind, node |-> node, msg |-> msg]

\* Insertion into the future event set: after every event that is not later.
Insert(f, e) ==
  LET k == Cardinality({i \in 1 .. Len(f) : f[i].dt <= e.dt})
  IN SubSeq(f, 1, k) \o <<e>> \o SubSeq(f, k + 1, Len(f))

\* cMessage::isScheduled() of the self-message `kind` of node n.
IsScheduled(f, kind, n) ==
  \E i \in 1 .. Len(f) : f[i].kind = kind /\ f[i].node = n

\* ------------------------------------------------------------- geometry
\* getCurrentPosition(): where its orbit has taken satellite s at the last
\* whole tick; after the last entry of the orbit the satellite stays there.
pos == [s \in Sats |-> IF s \in scn.sats THEN scn.orbit[s][tick] ELSE 0]
\* calculateDistance between a ground station and a satellite at position p
GsDistance(g, p) == Abs(scn.gsx[g] - p)
\* calculateDistanceToSatellite
SatDistance(p, q) == Abs(p - q)

\* ------------------------------------------------------------- world
\* The mutable state a handler works on, threaded through the operators
\* below in the order of the statements of the code.
World ==
  [fes |-> fes, crashed |-> crashed, txQueue |-> txQueue, satGates |-> satGates,
   neighbors |-> neighbors, routingTable |-> routingTable,
   gsGateSize |-> gsGateSize, gsLink |-> gsLink,
   currentSatellite |-> currentSatellite,
   currentSatGateIndex |-> currentSatGateIndex,
   packetsSent |-> packetsSent, packetsReceived |-> packetsReceived,
   packetsForwarded |-> packetsForwarded, packetsDropped |-> packetsDropped,
   created |-> created, uncounted |-> uncounted, log |-> <<>>]

Commit(w0) ==
  \E w \in {w0} :
    /\ fes' = w.fes
    /\ crashed' = w.crashed
    /\ txQueue' = w.txQueue
    /\ satGates' = w.satGates
    /\ neighbors' = w.neighbors
    /\ routingTable' = w.routingTable
    /\ gsGateSize' = w.gsGateSize
    /\ gsLink' = w.gsLink
    /\ currentSatellite' = w.currentSatellite
    /\ currentSatGateIndex' = w.currentSatGateIndex
    /\ packetsSent' = w.packetsSent
    /\ packetsReceived' = w.packetsReceived
    /\ packetsForwarded' = w.packetsForwarded
    /\ packetsDropped' = w.packetsDropped
    /\ created' = w.created
    /\ uncounted' = w.uncounted
    /\ log' = w.log

\* A cRuntimeError thrown inside a handler: what the handler did so far
\* stays, the rest of the handler and of the run does not happen.
Throw(w) == [w EXCEPT !.crashed = TRUE]

\* The head event has been taken from the future event set.
Popped(w) == [w EXCEPT !.fes = Tail(@)]

\* ------------------------------------------------------------- satellite queue
\* cSimpleModule::send on radioOut$o[gi]: the kernel refuses an unconnected
\* gate and a busy channel; a cPacket occupies the channel for its duration,
\* a plain cMessage (RoutingMessage) for none; the arrival is fixed now.
SatSend(w0, s, m, gi) ==
  Once({(
    LET g == w.satGates[s][gi + 1]
        dur == IF m.type = "data" THEN g.dur ELSE 0
    IN IF ~g.conn \/ g.busy > 0 THEN Throw(w)
       ELSE [w EXCEPT !.satGates[s][gi + 1].busy = dur,
                      !.fes = Insert(@, Ev(dur + g.delay, "msg", g.peer, m))]
  ) : w \in {w0}})

\* Variant for C4: the wake is scheduled without asking isScheduled().
SatProcessTxQueueRescheduling(w0, s) ==
  Once({(
    IF w.crashed \/ w.txQueue[s] = <<>> THEN w
    ELSE IF Head(w.txQueue[s]).gate >= Len(w.satGates[s]) THEN Throw(w)
    ELSE LET e == Head(w.txQueue[s])
             g == w.satGates[s][e.gate + 1]
         IN IF ~g.conn THEN Throw(w)
            ELSE IF g.busy > 0
              THEN [w EXCEPT !.fes = Insert(@, Ev(g.busy, "txFinishTimer", s, NoMsg))]
              ELSE SatSend([w EXCEPT !.txQueue[s] = Tail(@),
                                     !.log = Append(@, Logged("deq", s, e.msg, e.gate, <<>>))],
                           s, e.msg, e.gate)
  ) : w \in {w0}})

\* Satellite::processTxQueue
SatProcessTxQueue(w0, s) ==
  Once({(
    IF w.crashed \/ w.txQueue[s] = <<>> THEN w
    ELSE IF Head(w.txQueue[s]).gate >= Len(w.satGates[s])
      THEN Throw(w)                    \* gate(): index out of range
    ELSE LET e == Head(w.txQueue[s])
             g == w.satGates[s][e.gate + 1]
         IN IF ~g.conn THEN Throw(w)   \* getTransmissionChannel(): no channel
            ELSE IF g.busy > 0
              THEN IF IsScheduled(w.fes, "txFinishTimer", s) THEN w
                   ELSE [w EXCEPT !.fes = Insert(@, Ev(g.busy, "txFinishTimer", s, NoMsg))]
              ELSE SatSend([w EXCEPT !.txQueue[s] = Tail(@),
                                     !.log = Append(@, Logged("deq", s, e.msg, e.gate, <<>>))],
                           s, e.msg, e.gate)
  ) : w \in {w0}})

\* Variant for C2: a full queue gives up its oldest message for the new one.
SatSendOrQueueDropOldest(w0, s, m, gi) ==
  Once({(
    IF w.crashed THEN w
    ELSE IF Len(w.txQueue[s]) >= maxQueueSize
      THEN [w EXCEPT !.packetsDropped[s] = @ + 1,
                     !.txQueue[s] = Append(Tail(@), [msg |-> m, gate |-> gi]),
                     !.log = Append(@, Logged("drop", s, m, gi, <<>>))]
      ELSE SatProcessTxQueue(
             [w EXCEPT !.txQueue[s] = Append(@, [msg |-> m, gate |-> gi]),
                       !.log = Append(@, Logged("enq", s, m, gi, <<>>))], s)
  ) : w \in {w0}})

\* Satellite::sendOrQueue
SatSendOrQueue(w0, s, m, gi) ==
  Once({(
    IF w.crashed THEN w
    ELSE IF Len(w.txQueue[s]) >= maxQueueSize
      THEN [w EXCEPT !.packetsDropped[s] = @ + 1,
                     !.log = Append(@, Logged("drop", s, m, gi, <<>>))]
      ELSE SatProcessTxQueue(
             [w EXCEPT !.txQueue[s] = Append(@, [msg |-> m, gate |-> gi]),
                       !.log = Append(@, Logged("enq", s, m, gi, <<>>))], s)
  ) : w \in {w0}})

\* ------------------------------------------------------------- ground-station queue
\* cSimpleModule::send on groundLink$o[0]
GsSend(w0, g, m) ==
  Once({(
    LET l == w.gsLink[g]
        dur == IF m.type = "data" THEN GsTxDuration ELSE 0
    IN IF ~l.conn \/ l.busy > 0 THEN Throw(w)
       ELSE [w EXCEPT !.gsLink[g].busy = dur,
                      !.fes = Insert(@, Ev(dur + l.delay, "msg", l.sat, m))]
  ) : w \in {w0}})

\* Variant for C5: the newest message of the queue is sent first.
GsProcessTxQueueNewestFirst(w0, g) ==
  Once({(
    IF w.crashed \/ w.txQueue[g] = <<>> THEN w
    ELSE IF w.gsGateSize[g] = 0 THEN w
    ELSE IF ~w.gsLink[g].conn THEN w
    ELSE IF w.gsLink[g].busy > 0
      THEN IF IsScheduled(w.fes, "txFinishTimer", g) THEN w
           ELSE [w EXCEPT !.fes = Insert(@, Ev(w.gsLink[g].busy, "txFinishTimer", g, NoMsg))]
      ELSE LET q == w.txQueue[g]
               e == q[Len(q)]
           IN GsSend([w EXCEPT !.txQueue[g] = SubSeq(q, 1, Len(q) - 1),
                               !.log = Append(@, Logged("deq", g, e.msg, e.gate, <<>>))],
                     g, e.msg)
  ) : w \in {w0}})

\* Variant for C21: the head is sent without asking whether the channel
\* is busy.
GsProcessTxQueueNoHold(w0, g) ==
  Once({(
    IF w.crashed \/ w.txQueue[g] = <<>> THEN w
    ELSE IF w.gsGateSize[g] = 0 THEN w
    ELSE IF ~w.gsLink[g].conn THEN w
    ELSE LET e == Head(w.txQueue[g])
         IN GsSend([w EXCEPT !.txQueue[g] = Tail(@),
                             !.log = Append(@, Logged("deq", g, e.msg, e.gate, <<>>))],
                   g, e.msg)
  ) : w \in {w0}})

\* GroundStation::processTxQueue
GsProcessTxQueue(w0, g) ==
  Once({(
    IF w.crashed \/ w.txQueue[g] = <<>> THEN w
    ELSE IF w.gsGateSize[g] = 0 THEN w
    ELSE IF ~w.gsLink[g].conn THEN w
    ELSE IF w.gsLink[g].busy > 0
      THEN IF IsScheduled(w.fes, "txFinishTimer", g) THEN w
           ELSE [w EXCEPT !.fes = Insert(@, Ev(w.gsLink[g].busy, "txFinishTimer", g, NoMsg))]
      ELSE LET e == Head(w.txQueue[g])
           IN GsSend([w EXCEPT !.txQueue[g] = Tail(@),
                               !.log = Append(@, Logged("deq", g, e.msg, e.gate, <<>>))],
                     g, e.msg)
  ) : w \in {w0}})

\* Variant for C1: every message is accepted, whatever the queue holds.
GsSendOrQueueUnbounded(w0, g, m, gi) ==
  Once({(
    IF w.crashed THEN w
    ELSE GsProcessTxQueue(
           [w EXCEPT !.txQueue[g] = Append(@, [msg |-> m, gate |-> gi]),
                     !.log = Append(@, Logged("enq", g, m, gi, <<>>))], g)
  ) : w \in {w0}})

\* GroundStation::sendOrQueue
GsSendOrQueue(w0, g, m, gi) ==
  Once({(
    IF w.crashed THEN w
    ELSE IF Len(w.txQueue[g]) >= maxQueueSize
      THEN [w EXCEPT !.packetsDropped[g] = @ + 1,
                     !.log = Append(@, Logged("drop", g, m, gi, <<>>))]
      ELSE GsProcessTxQueue(
             [w EXCEPT !.txQueue[g] = Append(@, [msg |-> m, gate |-> gi]),
                       !.log = Append(@, Logged("enq", g, m, gi, <<>>))], g)
  ) : w \in {w0}})

\* ------------------------------------------------------------- satellite routing
\* The loop of Satellite::updateNeighborList over radioOut$o[0 .. n-1]:
\* a connected gate to a satellite within maxISLRange, or to a ground station.
\* Variant for C25: every connected peer is a neighbour, whatever its distance.
RECURSIVE NeighborScanAnyRange(_, _, _)
NeighborScanAnyRange(gates, s, i) ==
  IF i > Len(gates) THEN <<>>
  ELSE LET g == gates[i]
           rest == NeighborScanAnyRange(gates, s, i + 1)
           d == IF g.peer \in Sats THEN SatDistance(pos[s], pos[g.peer]) ELSE GsLinkCost
       IN IF ~g.conn THEN rest
          ELSE <<[node |-> g.peer, distance |-> d, gate |-> i - 1]>> \o rest

RECURSIVE NeighborScan(_, _, _)
NeighborScan(gates, s, i) ==
  IF i > Len(gates) THEN <<>>
  ELSE LET g == gates[i]
           rest == NeighborScan(gates, s, i + 1)
       IN IF ~g.conn THEN rest
          ELSE IF g.peer \in Sats
            THEN LET d == SatDistance(pos[s], pos[g.peer])
                 IN IF d <= scn.maxISLRange[s]
                      THEN <<[node |-> g.peer, distance |-> d, gate |-> i - 1]>> \o rest
                      ELSE rest
            ELSE <<[node |-> g.peer, distance |-> GsLinkCost, gate |-> i - 1]>> \o rest

\* Satellite::updateRoutingTable: the table is cleared and rebuilt, one
\* direct entry per neighbour.
UpdateRoutingTable(nb) ==
  [j \in 1 .. Len(nb) |->
     [dest |-> nb[j].node, nextHop |-> nb[j].node, cost |-> nb[j].distance]]

\* Satellite::sendToNeighbor
SendToNeighbor(w0, s, target, m) ==
  Once({(
    LET nb == w.neighbors[s]
        hits == {j \in 1 .. Len(nb) :
                   nb[j].node = target /\ Len(w.satGates[s]) > nb[j].gate}
    IN IF w.crashed THEN w
       ELSE IF hits = {}
         THEN IF m.type = "data" THEN [w EXCEPT !.uncounted = @ + 1] ELSE w
         ELSE SatSendOrQueue(w, s, m, nb[Min(hits)].gate)
  ) : w \in {w0}})

\* Variant for C24: the advertisement lists the table only.
AdvertisementWithoutSelf(s, rt) ==
  [j \in 1 .. Len(rt) |-> [dest |-> rt[j].dest, cost |-> rt[j].cost]]

\* The advertisement of Satellite::broadcastRoutingTable: every table entry,
\* then the self entry with cost 0.
Advertisement(s, rt) ==
  [j \in 1 .. Len(rt) |-> [dest |-> rt[j].dest, cost |-> rt[j].cost]]
    \o <<[dest |-> s, cost |-> 0]>>

\* The loop of Satellite::broadcastRoutingTable over the neighbours.
RECURSIVE BroadcastFrom(_, _, _, _)
BroadcastFrom(w0, s, m, j) ==
  Once({(
    IF j > Len(w.neighbors[s]) THEN w
    ELSE BroadcastFrom(SendToNeighbor(w, s, w.neighbors[s][j].node, m), s, m, j + 1)
  ) : w \in {w0}})

BroadcastRoutingTable(w0, s) ==
  Once({(
    BroadcastFrom(w, s, RoutingMessage(s, Advertisement(s, w.routingTable[s])), 1)
  ) : w \in {w0}})

\* Variant for C23: the table is not cleared; the direct entries are put
\* in front of the entries it held for other destinations.
UpdateNeighborListKeeping(w0, s) ==
  Once({(
    LET nb == NeighborScan(w.satGates[s], s, 1)
        direct == UpdateRoutingTable(nb)
        kept == SelectSeq(w.routingTable[s],
                          LAMBDA e : \A j \in 1 .. Len(nb) : nb[j].node # e.dest)
    IN BroadcastRoutingTable(
         [w EXCEPT !.neighbors[s] = nb, !.routingTable[s] = direct \o kept,
                   !.log = Append(@, Logged("rebuild", s, NoMsg, -1, w.routingTable[s]))],
         s)
  ) : w \in {w0}})

\* Satellite::updateNeighborList (with updateRoutingTable and
\* broadcastRoutingTable, which it calls last).
UpdateNeighborList(w0, s) ==
  Once({(
    LET nb == NeighborScan(w.satGates[s], s, 1)
    IN BroadcastRoutingTable(
         [w EXCEPT !.neighbors[s] = nb, !.routingTable[s] = UpdateRoutingTable(nb),
                   !.log = Append(@, Logged("rebuild", s, NoMsg, -1, w.routingTable[s]))],
         s)
  ) : w \in {w0}})

\* Variant for C35: the message goes to the last neighbour of the list
\* whenever the table has an entry for the destination.
RouteMessageToLastNeighbor(w0, s, m, dest) ==
  Once({(
    LET nb == w.neighbors[s]
    IN IF nb = <<>> THEN [w EXCEPT !.uncounted = @ + 1]
       ELSE SendToNeighbor(w, s, nb[Len(nb)].node, m)
  ) : w \in {w0}})

\* Satellite::routeMessage: the first table entry for the destination whose
\* next hop is the id of a neighbour; with none the message is left alone.
RouteMessage(w0, s, m, dest) ==
  Once({(
    LET rt == w.routingTable[s]
        nb == w.neighbors[s]
        hits == {i \in 1 .. Len(rt) :
                   rt[i].dest = dest /\ \E j \in 1 .. Len(nb) : nb[j].node = rt[i].nextHop}
    IN IF hits = {} THEN [w EXCEPT !.uncounted = @ + 1]
       ELSE SendToNeighbor(w, s, rt[Min(hits)].nextHop, m)
  ) : w \in {w0}})

\* The cost of the link to the advertisement's source: the distance cached
\* in the neighbour list, 0.0 when the source is not in it.
LinkCost(nb, src) ==
  LET hits == {j \in 1 .. Len(nb) : nb[j].node = src}
  IN IF hits = {} THEN 0 ELSE nb[Min(hits)].distance

\* Variant for C6: an advertised destination is added without the lookup.
ProcessAdvertAppending(rt0, s, src, linkCost, a) ==
  Once({(
    IF a.dest # s
      THEN Append(rt, [dest |-> a.dest, nextHop |-> src, cost |-> a.cost + linkCost])
      ELSE rt
  ) : rt \in {rt0}})

\* Variant for C8: an equal total replaces the entry as well.
ProcessAdvertOnTies(rt0, s, src, linkCost, a) ==
  Once({(
    LET total == a.cost + linkCost
        hits == {i \in 1 .. Len(rt) : rt[i].dest = a.dest}
    IN IF hits # {}
         THEN IF total <= rt[Min(hits)].cost
                THEN [rt EXCEPT ![Min(hits)] = [dest |-> a.dest, nextHop |-> src, cost |-> total]]
                ELSE rt
         ELSE IF a.dest # s
                THEN Append(rt, [dest |-> a.dest, nextHop |-> src, cost |-> total])
                ELSE rt
  ) : rt \in {rt0}})

\* One iteration of the loop of Satellite::processRoutingMessage.
ProcessAdvert(rt0, s, src, linkCost, a) ==
  Once({(
    LET total == a.cost + linkCost
        hits == {i \in 1 .. Len(rt) : rt[i].dest = a.dest}
    IN IF hits # {}
         THEN IF total < rt[Min(hits)].cost
                THEN [rt EXCEPT ![Min(hits)] = [dest |-> a.dest, nextHop |-> src, cost |-> total]]
                ELSE rt
         ELSE IF a.dest # s
                THEN Append(rt, [dest |-> a.dest, nextHop |-> src, cost |-> total])
                ELSE rt
  ) : rt \in {rt0}})

RECURSIVE ProcessAdverts(_, _, _, _, _, _)
ProcessAdverts(rt0, s, src, linkCost, adv, i) ==
  Once({(
    IF i > Len(adv) THEN rt
    ELSE ProcessAdverts(ProcessAdvert(rt, s, src, linkCost, adv[i]), s, src, linkCost, adv, i + 1)
  ) : rt \in {rt0}})

\* Satellite::processRoutingMessage
ProcessRoutingMessage(w0, s, m) ==
  Once({(
    [w EXCEPT !.routingTable[s] =
                ProcessAdverts(@, s, m.src, LinkCost(w.neighbors[s], m.src), m.adv, 1),
              !.log = Append(@, Logged("adv", s, m, -1, w.routingTable[s]))]
  ) : w \in {w0}})

\* The route lookup of Satellite::handleMessage (routeFound).
RouteFound(rt, dest) == \E i \in 1 .. Len(rt) : rt[i].dest = dest

\* ------------------------------------------------------------- handover
\* The satellites of the network in the order of the submodule iterator:
\* the order the network description declares them in.
SatOrder == SelectSeq(scn.order, LAMBDA n : n \in scn.sats)

NoGate == [peer |-> NoNode, conn |-> FALSE, busy |-> 0, delay |-> 0, dur |-> 0]
NoLink == [conn |-> FALSE, sat |-> NoNode, idx |-> -1, busy |-> 0, delay |-> 0]

\* The loop of GroundStation::findNearestSatellite: minDistance starts at
\* maxRange and a satellite is taken when distance <= maxRange and
\* distance < minDistance.
RECURSIVE NearestScan(_, _, _, _)
NearestScan(g, todo, best, minDistance) ==
  IF todo = <<>> THEN best
  ELSE LET d == GsDistance(g, pos[Head(todo)])
       IN IF d <= scn.maxRange[g] /\ d < minDistance
            THEN NearestScan(g, Tail(todo), Head(todo), d)
            ELSE NearestScan(g, Tail(todo), best, minDistance)

FindNearestSatellite(g) == NearestScan(g, SatOrder, NoNode, scn.maxRange[g])

\* The delay of a dynamic link: distance / c + processing delay.
LinkDelay(d) == d \div SpeedOfLight + ProcessingDelay

\* Variant for C36: a gate of the satellite that a detach left disconnected
\* is taken again before the arrays are grown.
ConnectToSatelliteReusing(w0, g, sat) ==
  Once({(
    LET free == {i \in 1 .. Len(w.satGates[sat]) : w.satGates[sat][i] = NoGate}
        idx == IF free = {} THEN Len(w.satGates[sat]) ELSE Min(free) - 1
        delay == LinkDelay(GsDistance(g, pos[sat]))
        gt == [peer |-> g, conn |-> TRUE, busy |-> 0, delay |-> delay,
               dur |-> GsTxDuration]
    IN [w EXCEPT !.gsGateSize[g] = 1,
                 !.currentSatGateIndex[g] = idx,
                 !.satGates[sat] = IF free = {} THEN Append(@, gt)
                                   ELSE [@ EXCEPT ![idx + 1] = gt],
                 !.gsLink[g] = [conn |-> TRUE, sat |-> sat, idx |-> idx, busy |-> 0,
                                delay |-> delay]]
  ) : w \in {w0}})

\* GroundStation::connectToSatellite: both gate arrays of the satellite grow
\* by one, the new index is the old size, two fresh channels are connected.
ConnectToSatellite(w0, g, sat) ==
  Once({(
    LET idx == Len(w.satGates[sat])
        delay == LinkDelay(GsDistance(g, pos[sat]))
    IN [w EXCEPT !.gsGateSize[g] = 1,
                 !.currentSatGateIndex[g] = idx,
                 !.satGates[sat] = Append(@, [peer |-> g, conn |-> TRUE, busy |-> 0,
                                              delay |-> delay, dur |-> GsTxDuration]),
                 !.gsLink[g] = [conn |-> TRUE, sat |-> sat, idx |-> idx, busy |-> 0,
                                delay |-> delay]]
  ) : w \in {w0}})

\* Variant for C17: only the outgoing direction is disconnected.
DisconnectFromSatelliteOutgoingOnly(w0, g) ==
  Once({(
    IF w.gsGateSize[g] = 0 THEN w
    ELSE [w EXCEPT !.gsLink[g] = NoLink, !.currentSatGateIndex[g] = -1]
  ) : w \in {w0}})

\* GroundStation::disconnectFromSatellite: groundLink$o[0] is disconnected,
\* then the satellite's gate that leads to groundLink$i[0].
DisconnectFromSatellite(w0, g) ==
  Once({(
    IF w.gsGateSize[g] = 0 THEN w
    ELSE LET l == w.gsLink[g]
             inConnected == l.sat # NoNode /\ w.satGates[l.sat][l.idx + 1].conn
         IN [w EXCEPT !.gsLink[g] = NoLink,
                      !.currentSatGateIndex[g] = -1,
                      !.satGates = IF inConnected
                                     THEN [@ EXCEPT ![l.sat][l.idx + 1] = NoGate]
                                     ELSE @]
  ) : w \in {w0}})

\* GroundStation::performHandover
PerformHandover(w0, g) ==
  Once({(
    LET nearest == FindNearestSatellite(g)
        cur == w.currentSatellite[g]
    IN IF nearest = cur THEN w
       ELSE LET w1 == IF cur # NoNode THEN DisconnectFromSatellite(w, g) ELSE w
                w2 == [w1 EXCEPT !.currentSatellite[g] = nearest]
            IN IF nearest # NoNode THEN ConnectToSatellite(w2, g, nearest) ELSE w2
  ) : w \in {w0}})

\* Variant for C15: an unattached station keeps the packet in its queue
\* until a handover attaches it.
SendToCurrentSatelliteHolding(w0, g, m) ==
  Once({(
    IF w.currentSatellite[g] = NoNode \/ w.gsGateSize[g] = 0
      THEN GsSendOrQueue(w, g, m, 0)
    ELSE IF ~w.gsLink[g].conn
      THEN [w EXCEPT !.packetsDropped[g] = @ + 1]
    ELSE GsSendOrQueue(
           [w EXCEPT !.packetsSent[g] = IF m.type = "data" THEN @ + 1 ELSE @], g, m, 0)
  ) : w \in {w0}})

\* GroundStation::sendToCurrentSatellite
SendToCurrentSatellite(w0, g, m) ==
  Once({(
    IF w.currentSatellite[g] = NoNode \/ w.gsGateSize[g] = 0
      THEN [w EXCEPT !.packetsDropped[g] = @ + 1]
    ELSE IF ~w.gsLink[g].conn
      THEN [w EXCEPT !.packetsDropped[g] = @ + 1]
    ELSE GsSendOrQueue(
           [w EXCEPT !.packetsSent[g] = IF m.type = "data" THEN @ + 1 ELSE @], g, m, 0)
  ) : w \in {w0}})

\* ------------------------------------------------------------- scenarios
\* A scenario is what the network description and the ini file fix: the
\* modules and the order the kernel initializes them in, the ISL edges,
\* the positions the orbits visit at whole ticks, and per module
\* maxISLRange, maxRange, the ground position and sendInterval (0: longer
\* than the run, the traffic timer never fires), and the plain messages
\* a test harness has under way to a satellite when the run starts.
Interval(a, b, c, d, e) == (1 :> a) @@ (2 :> b) @@ (3 :> c) @@ (99 :> d) @@ (101 :> e)

\* Two satellites joined by one ISL that breaks when they are apart, two
\* ground stations under them.
PairNet(order, interval, o1, o2) ==
  [sats |-> {1, 2}, gss |-> {99, 101}, order |-> order,
   isl |-> {{1, 2}}, orbit |-> (1 :> o1) @@ (2 :> o2),
   maxISLRange |-> [s \in Sats |-> 1], maxRange |-> [g \in GSs |-> 2],
   gsx |-> (99 :> 0) @@ (101 :> 2), interval |-> interval, inject |-> <<>>]

\* Three satellites in a triangle of ISLs that stay in range, one ground
\* station handed over among them.
TriangleNet(order, interval, o1, o2, o3) ==
  [sats |-> {1, 2, 3}, gss |-> {99}, order |-> order,
   isl |-> {{1, 2}, {1, 3}, {2, 3}}, orbit |-> (1 :> o1) @@ (2 :> o2) @@ (3 :> o3),
   maxISLRange |-> [s \in Sats |-> 1], maxRange |-> [g \in GSs |-> 1],
   gsx |-> (99 :> 0) @@ (101 :> 1), interval |-> interval, inject |-> <<>>]

\* Four satellites in a line of ISLs whose adjacent pairs stay in range;
\* no ground station, no traffic.
ChainNet(o) ==
  [sats |-> {1, 2, 3, 4}, gss |-> {}, order |-> <<1, 2, 3, 4>>,
   isl |-> {{1, 2}, {2, 3}, {3, 4}},
   orbit |-> [s \in 1 .. 4 |-> <<o[s], o[s], o[s]>>],
   maxISLRange |-> [s \in Sats |-> 1], maxRange |-> [g \in GSs |-> 1],
   gsx |-> (99 :> 0) @@ (101 :> 1),
   interval |-> Interval(0, 0, 0, 0, 0) @@ (4 :> 0), inject |-> <<>>]

\* The pair with unequal maxISLRange parameters, two apart: satellite 1
\* has satellite 2 in range, satellite 2 does not have satellite 1.
UnevenNet(interval) ==
  [PairNet(<<1, 2, 99, 101>>, interval, <<0, 0>>, <<2, 2>>)
     EXCEPT !.maxISLRange = [s \in Sats |-> IF s = 1 THEN 2 ELSE 1]]
\* Traffic from satellite 2, or from the ground station under it.
UnevenIntervals == {Interval(0, 1, 0, 0, 0), Interval(0, 0, 0, 0, 1)}
\* The pair with satellite 1 moving from over station 99 to exactly maxRange
\* from it while satellite 2 stays out of the station's range.
BoundaryNet(interval) == PairNet(<<1, 2, 99, 101>>, interval, <<0, 2>>, <<3, 3>>)
BoundaryIntervals == {Interval(0, 0, 0, 0, 0), Interval(0, 0, 0, 1, 0)}

PairOrders == {<<1, 2, 99, 101>>, <<99, 101, 1, 2>>}
\* The pair declared with satellite 2 before satellite 1.
SwappedOrder == <<2, 1, 99, 101>>
SwappedIntervals == {Interval(0, 0, 0, 0, 0), Interval(0, 0, 0, 1, 4)}
SwappedOrbits ==
  {<<<<1, 1>>, <<1, 1>>>>,     \* both satellites as far from either station
   <<<<0, 1>>, <<1, 0>>>>}     \* the satellites swap places
PairIntervals ==
  {Interval(0, 0, 0, 0, 0), Interval(1, 1, 0, 1, 1), Interval(0, 0, 0, 1, 4),
   Interval(0, 0, 0, 1, 0), Interval(1, 0, 0, 0, 0), Interval(0, 0, 0, 4, 4)}

\* The orbits of satellites 1 and 2: the positions at the first ticks, the
\* last of them kept from then on.
PairOrbits ==
  {<<<<0, 0>>, <<2, 2>>>>,     \* one satellite over each station, ISL out of range
   <<<<0, 0>>, <<1, 1>>>>,     \* one satellite per station, ISL in range
   <<<<1, 1>>, <<1, 1>>>>,     \* both stations under satellite 1
   <<<<0, 2>>, <<1, 1>>>>,     \* station 99 handed over from 1 to 2
   <<<<0, 2>>, <<2, 2>>>>,     \* station 99 loses its satellite
   <<<<1, 0>>, <<1, 2>>>>,     \* the satellites part, station 101 handed over
   <<<<0, 0>>, <<1, 2>>>>,     \* the ISL goes out of range
   <<<<2, 2>>, <<2, 2>>>>,     \* station 99 never in range
   <<<<2, 1>>, <<2, 2>>>>,     \* station 99 comes into range
   <<<<0, 1>>, <<1, 0>>>>}     \* the satellites swap places
LateOrbits ==
  {<<<<0, 0, 0>>, <<1, 1, 2>>>>}   \* the ISL goes out of range at the second tick
TriangleOrbits == {<<a, b>> : a \in 0 .. 1, b \in 0 .. 1}
\* Satellite 1 leaves the ground station to satellite 2 while satellite 3
\* is as far from the one as from the other.
HandoverOrbits == {<<<<0, 2>>, <<0, 0>>, <<1, 1>>>>}
\* The places of the four satellites of the chain.
ChainOrbits == {<<0, 1, 2, 3>>, <<0, 0, 1, 1>>}

\* The pair with both stations under satellite 1 (three gates) and a plain
\* message under way to a satellite.
InjectNet(inject) ==
  [PairNet(<<1, 2, 99, 101>>, Interval(0, 0, 0, 0, 0), <<1, 1>>, <<1, 1>>)
     EXCEPT !.inject = inject]
Injections ==
  {<<[node |-> n, name |-> nm]>> : n \in {1, 2}, nm \in {"Hello", "TestFromGS"}}

Scenarios ==
  {PairNet(o, i, ob[1], ob[2]) : o \in PairOrders, i \in PairIntervals,
                                 ob \in PairOrbits}
    \cup {PairNet(o, Interval(1, 0, 0, 0, 0), ob[1], ob[2]) :
             o \in PairOrders, ob \in LateOrbits}
    \cup {TriangleNet(<<1, 99, 2, 3>>, Interval(0, 0, 0, 0, 0), o1, o2, <<0, 0>>) :
             o1 \in TriangleOrbits, o2 \in TriangleOrbits}
    \cup {TriangleNet(<<1, 99, 2, 3>>, Interval(0, 0, 0, 0, 0), ob[1], ob[2], ob[3]) :
             ob \in HandoverOrbits}
    \cup {ChainNet(o) : o \in ChainOrbits}
    \cup {UnevenNet(i) : i \in UnevenIntervals}
    \cup {BoundaryNet(i) : i \in BoundaryIntervals}
    \cup {PairNet(SwappedOrder, i, ob[1], ob[2]) :
             i \in SwappedIntervals, ob \in SwappedOrbits}
    \cup {InjectNet(j) : j \in Injections}

\* The scenarios whose ini file sets a time limit (sim-time-limit); the
\* others run until they are stopped from outside.
LimitIntervals == {Interval(0, 0, 0, 1, 0), Interval(1, 0, 0, 0, 0)}
TimeLimited ==
  {PairNet(<<1, 2, 99, 101>>, i, ob[1], ob[2]) : i \in LimitIntervals, ob \in PairOrbits}
    \cup {TriangleNet(<<1, 99, 2, 3>>, Interval(0, 0, 0, 0, 0), ob[1], ob[2], ob[3]) :
             ob \in HandoverOrbits}
    \cup {PairNet(SwappedOrder, i, ob[1], ob[2]) :
             i \in SwappedIntervals, ob \in SwappedOrbits}
    \cup {InjectNet(j) : j \in Injections}

\* The values intuniform can give a traffic source: the other satellites
\* of the network, the other ground stations, and 6 and 102 standing for
\* the addresses no module of the network has.
SatDests(s) == ((scn.sats \ {s}) \cap (1 .. 6)) \cup {6}
GsDests(g) == IF g = 99 THEN {101, 102} ELSE {99}

\* The radioOut gate array the network description gives satellite s: one
\* gate per ISL edge, in the order of the peers.
RECURSIVE Ascending(_)
Ascending(S) == IF S = {} THEN <<>> ELSE <<Min(S)>> \o Ascending(S \ {Min(S)})
IslGates(sc, s) ==
  LET peers == Ascending({t \in sc.sats : {s, t} \in sc.isl /\ t # s})
  IN [i \in 1 .. Len(peers) |->
        [peer |-> peers[i], conn |-> TRUE, busy |-> 0,
         delay |-> IslChannel.delay, dur |-> IslChannel.dur]]

Init ==
  /\ scn \in Scenarios
  /\ fes = [i \in 1 .. Len(scn.inject) |->
              Ev(1, "msg", scn.inject[i].node, PlainMessage(scn.inject[i].name))]
  /\ phase = 0
  /\ tick = 1
  /\ toInit = scn.order
  /\ finished = <<>>
  /\ crashed = FALSE
  /\ txQueue = [n \in Nodes |-> <<>>]
  /\ satGates = [s \in Sats |-> IF s \in scn.sats THEN IslGates(scn, s) ELSE <<>>]
  /\ neighbors = [s \in Sats |-> <<>>]
  /\ routingTable = [s \in Sats |-> <<>>]
  /\ gsGateSize = [g \in GSs |-> 0]
  /\ gsLink = [g \in GSs |-> NoLink]
  /\ currentSatellite = [g \in GSs |-> NoNode]
  /\ currentSatGateIndex = [g \in GSs |-> -1]
  /\ packetsSent = [g \in GSs |-> 0]
  /\ packetsReceived = [n \in Nodes |-> 0]
  /\ packetsForwarded = [s \in Sats |-> 0]
  /\ packetsDropped = [n \in Nodes |-> 0]
  /\ created = 0
  /\ uncounted = 0
  /\ log = <<>>

PendingTraffic(f) == Cardinality({i \in 1 .. Len(f) : f[i].kind = "trafficTimer"})

\* scheduleAt(simTime() + par("sendInterval"), trafficTimer)
\* A source whose next packet would exceed MaxPkts is not rescheduled: its
\* next firing lies beyond the end of the run.
ScheduleTraffic(w0, n) ==
  Once({(
    IF scn.interval[n] = 0 THEN w
    ELSE IF w.created + PendingTraffic(w.fes) >= MaxPkts THEN w
    ELSE [w EXCEPT !.fes = Insert(@, Ev(scn.interval[n], "trafficTimer", n, NoMsg))]
  ) : w \in {w0}})

ScheduleTick(w0, kind, n) ==
  Once({(
    [w EXCEPT !.fes = Insert(@, Ev(TickPeriod, kind, n, NoMsg))]
  ) : w \in {w0}})

\* A handover that attaches needs room in the model's gate arrays.
HandoverInBounds(g) ==
  LET nearest == FindNearestSatellite(g)
  IN nearest # NoNode /\ nearest # currentSatellite[g]
       => Len(satGates[nearest]) < MaxGates

Static == UNCHANGED <<phase, tick, scn, finished>>

\* ------------------------------------------------------------- initialize
\* Satellite::initialize
SatInitialize(s) ==
  /\ toInit # <<>> /\ Head(toInit) = s
  /\ LET w1 == UpdateNeighborList(World, s)
         w2 == ScheduleTraffic(ScheduleTick(w1, "updateTimer", s), s)
     IN Commit([w2 EXCEPT !.packetsReceived[s] = 0, !.packetsForwarded[s] = 0,
                          !.packetsDropped[s] = 0])
  /\ toInit' = Tail(toInit)
  /\ Static

\* GroundStation::initialize
GsInitialize(g) ==
  /\ toInit # <<>> /\ Head(toInit) = g
  /\ HandoverInBounds(g)
  /\ Commit(PerformHandover(ScheduleTraffic(ScheduleTick(World, "handoverTimer", g), g), g))
  /\ toInit' = Tail(toInit)
  /\ Static

\* ------------------------------------------------------------- event loop
\* The kernel delivers the first event of the future event set to its module.
Delivers(kind, n) ==
  /\ toInit = <<>>
  /\ finished = <<>>
  /\ ~crashed
  /\ fes # <<>>
  /\ Head(fes).dt = 0
  /\ Head(fes).kind = kind
  /\ Head(fes).node = n

\* simTime() moves to the arrival time of the next event; at a whole tick
\* the satellites are where their orbits have taken them.
AdvanceClock ==
  /\ toInit = <<>> /\ finished = <<>> /\ ~crashed /\ fes # <<>> /\ Head(fes).dt > 0
  /\ LET d == Head(fes).dt
     IN /\ fes' = [i \in 1 .. Len(fes) |-> [fes[i] EXCEPT !.dt = @ - d]]
        /\ satGates' = [s \in Sats |-> [i \in 1 .. Len(satGates[s]) |->
                          [satGates[s][i] EXCEPT !.busy = Max0(@ - d)]]]
        /\ gsLink' = [g \in GSs |-> [gsLink[g] EXCEPT !.busy = Max0(@ - d)]]
        /\ phase' = (phase + d) % TickPeriod
        /\ tick' = IF phase' = 0 /\ tick < Len(scn.orbit[1]) THEN tick + 1 ELSE tick
  /\ UNCHANGED <<toInit, finished, scn, crashed, txQueue, neighbors, routingTable,
                 gsGateSize, currentSatellite, currentSatGateIndex, packetsSent,
                 packetsReceived, packetsForwarded, packetsDropped, created,
                 uncounted>>
  /\ log' = <<>>

\* ------------------------------------------------------------- Satellite::handleMessage
\* msg == txFinishTimer
SatTxFinish(s) ==
  /\ Delivers("txFinishTimer", s) /\ s \in Sats
  /\ Commit(SatProcessTxQueue(Popped(World), s))
  /\ UNCHANGED toInit /\ Static

\* msg == updateTimer
SatUpdate(s) ==
  /\ Delivers("updateTimer", s)
  /\ LET w1 == UpdateNeighborList(Popped(World), s)
     IN Commit(IF w1.crashed THEN w1 ELSE ScheduleTick(w1, "updateTimer", s))
  /\ UNCHANGED toInit /\ Static

\* msg == trafficTimer; dest is the value of 1 + intuniform(0, 5)
SatTraffic(s, dest) ==
  /\ Delivers("trafficTimer", s) /\ s \in Sats
  /\ RouteFound(routingTable[s], dest) => created < MaxPkts
  /\ LET w0 == Popped(World)
         packet == DataPacket(s, dest, packetsForwarded[s] + packetsReceived[s] + 1000)
         w1 == IF RouteFound(routingTable[s], dest)
                 THEN RouteMessage([w0 EXCEPT !.created = @ + 1], s, packet, dest)
                 ELSE w0
     IN Commit(IF w1.crashed THEN w1 ELSE ScheduleTraffic(w1, s))
  /\ UNCHANGED toInit /\ Static

\* a RoutingMessage arrives
SatRoutingMessage(s) ==
  /\ Delivers("msg", s) /\ s \in Sats /\ Head(fes).msg.type = "routing"
  /\ Commit(ProcessRoutingMessage(Popped(World), s, Head(fes).msg))
  /\ UNCHANGED toInit /\ Static

\* Variant for C10: hopCount is incremented on arrival, before the
\* destination test.
HandleDataPacketCountingArrival(w0, s, m) ==
  Once({(
    LET p == [m EXCEPT !.hop = @ + 1]
    IN IF m.dst = s
         THEN [w EXCEPT !.packetsReceived[s] = @ + 1,
                        !.log = Append(@, Logged("deliver", s, p, -1, <<>>))]
         ELSE LET w1 == [w EXCEPT !.packetsForwarded[s] = @ + 1]
              IN IF RouteFound(w1.routingTable[s], p.dst)
                   THEN RouteMessage(w1, s, [p EXCEPT !.fwd = Append(@, s)], p.dst)
                   ELSE [w1 EXCEPT !.packetsDropped[s] = @ + 1]
  ) : w \in {w0}})

\* The DataPacket branch: received when addressed to this satellite,
\* else counted as forwarded, hopCount incremented, routed or dropped.
HandleDataPacket(w0, s, m) ==
  Once({(
    IF m.dst = s
      THEN [w EXCEPT !.packetsReceived[s] = @ + 1,
                     !.log = Append(@, Logged("deliver", s, m, -1, <<>>))]
      ELSE LET w1 == [w EXCEPT !.packetsForwarded[s] = @ + 1]
               p == [m EXCEPT !.hop = @ + 1]
           IN IF RouteFound(w1.routingTable[s], p.dst)
                THEN RouteMessage(w1, s, [p EXCEPT !.fwd = Append(@, s)], p.dst)
                ELSE [w1 EXCEPT !.packetsDropped[s] = @ + 1]
  ) : w \in {w0}})

\* any other message arrives: deleted, and answered on radioOut$o[2]
\* unless it is named TestFromGS
SatOtherMessage(s) ==
  /\ Delivers("msg", s) /\ s \in Sats
  /\ Head(fes).msg.type \notin {"routing", "data"}
  /\ Commit(IF Head(fes).msg.name # "TestFromGS"
              THEN SatSendOrQueue(Popped(World), s, PlainMessage("ReplyFromSat"), 2)
              ELSE Popped(World))
  /\ UNCHANGED toInit /\ Static

\* a DataPacket arrives
SatDataPacket(s) ==
  /\ Delivers("msg", s) /\ s \in Sats /\ Head(fes).msg.type = "data"
  /\ Head(fes).msg.hop < MaxHops
  /\ Commit(HandleDataPacket(Popped(World), s, Head(fes).msg))
  /\ UNCHANGED toInit /\ Static

\* ------------------------------------------------------------- GroundStation::handleMessage
\* msg == txFinishTimer
GsTxFinish(g) ==
  /\ Delivers("txFinishTimer", g) /\ g \in GSs
  /\ Commit(GsProcessTxQueue(Popped(World), g))
  /\ UNCHANGED toInit /\ Static

\* msg == handoverTimer
GsHandover(g) ==
  /\ Delivers("handoverTimer", g)
  /\ HandoverInBounds(g)
  /\ Commit(ScheduleTick(PerformHandover(Popped(World), g), "handoverTimer", g))
  /\ UNCHANGED toInit /\ Static

\* msg == trafficTimer; dest is 99, or the value of 101 + intuniform(0, 9)
GsTraffic(g, dest) ==
  /\ Delivers("trafficTimer", g) /\ g \in GSs
  /\ created < MaxPkts
  /\ LET w0 == [Popped(World) EXCEPT !.created = @ + 1]
         packet == DataPacket(g, dest, packetsSent[g])
         w1 == SendToCurrentSatellite(w0, g, packet)
     IN Commit(IF w1.crashed THEN w1 ELSE ScheduleTraffic(w1, g))
  /\ UNCHANGED toInit /\ Static

\* a DataPacket arrives
GsDataPacket(g) ==
  /\ Delivers("msg", g) /\ g \in GSs /\ Head(fes).msg.type = "data"
  /\ Commit([Popped(World) EXCEPT
               !.packetsReceived[g] = @ + 1,
               !.log = Append(@, Logged("deliver", g, Head(fes).msg, -1, <<>>))])
  /\ UNCHANGED toInit /\ Static

\* any other message (a RoutingMessage) arrives: deleted
GsOtherMessage(g) ==
  /\ Delivers("msg", g) /\ g \in GSs /\ Head(fes).msg.type # "data"
  /\ Commit(Popped(World))
  /\ UNCHANGED toInit /\ Static

\* ------------------------------------------------------------- finish
\* The kernel ends a run that met no error by calling finish() of every
\* module, in the order of the network description.  The time limit of a
\* run is a whole number of ticks; which of the events due at the limit
\* are still delivered is left open.
CallsFinish(n) ==
  /\ toInit = <<>>
  /\ ~crashed
  /\ finished = <<>> => scn \in TimeLimited /\ phase = 0
  /\ Len(finished) < Len(scn.order)
  /\ scn.order[Len(finished) + 1] = n

\* cancelAndDelete of the module's timers and delete txQueue: the timers
\* leave the future event set, the queued messages are destroyed.
Finish(w0, n) ==
  Once({(
    [w EXCEPT !.fes = SelectSeq(@, LAMBDA e : e.kind = "msg" \/ e.node # n),
              !.uncounted = @ + Cardinality({i \in 1 .. Len(w.txQueue[n]) :
                                               w.txQueue[n][i].msg.type = "data"}),
              !.txQueue[n] = <<>>,
              !.log = Append(@, Logged("finish", n, NoMsg, -1, <<>>))]
  ) : w \in {w0}})

\* Satellite::finish
SatFinish(s) ==
  /\ CallsFinish(s) /\ s \in Sats
  /\ Commit(Finish(World, s))
  /\ finished' = Append(finished, s)
  /\ UNCHANGED <<toInit, phase, tick, scn>>

\* GroundStation::finish
GsFinish(g) ==
  /\ CallsFinish(g) /\ g \in GSs
  /\ Commit(Finish(World, g))
  /\ finished' = Append(finished, g)
  /\ UNCHANGED <<toInit, phase, tick, scn>>

\* ------------------------------------------------------------- specification
Next ==
  \/ \E s \in Sats : SatInitialize(s)
  \/ \E g \in GSs : GsInitialize(g)
  \/ AdvanceClock
  \/ \E s \in Sats : SatTxFinish(s)
  \/ \E s \in Sats : SatUpdate(s)
  \/ \E s \in Sats : \E dest \in SatDests(s) : SatTraffic(s, dest)
  \/ \E s \in Sats : SatRoutingMessage(s)
  \/ \E s \in Sats : SatDataPacket(s)
  \/ \E s \in Sats : SatOtherMessage(s)
  \/ \E g \in GSs : GsTxFinish(g)
  \/ \E g \in GSs : GsHandover(g)
  \/ \E g \in GSs : \E dest \in GsDests(g) : GsTraffic(g, dest)
  \/ \E g \in GSs : GsDataPacket(g)
  \/ \E g \in GSs : GsOtherMessage(g)
  \/ \E s \in Sats : SatFinish(s)
  \/ \E g \in GSs : GsFinish(g)

Spec == Init /\ [][Next]_vars

\* The scenarios the runs without end are followed in: the pair with a
\* station that loses its satellite, keeps it, or is handed over, without
\* traffic and with traffic from every module, and the plain messages.
LiveIntervals == {Interval(0, 0, 0, 1, 0), Interval(1, 1, 0, 1, 1)}
LiveOrbits ==
  {<<<<0, 2>>, <<2, 2>>>>, <<<<0, 0>>, <<1, 1>>>>, <<<<0, 2>>, <<1, 1>>>>}
LiveScenarios ==
  {PairNet(o, i, ob[1], ob[2]) : o \in PairOrders, i \in LiveIntervals,
                                 ob \in LiveOrbits}
    \cup {InjectNet(j) : j \in Injections}

\* The kernel delivers events as long as there are any: the event loop
\* never pauses of its own.
FairInit == Init /\ scn \in LiveScenarios
FairSpec == FairInit /\ [][Next]_vars /\ WF_vars(Next)

\* ------------------------------------------------------------- properties
\* The step hands the first event of the future event set to the handler
\* of module n: the run does not end at this point.
Handles(kind, n) == Delivers(kind, n) /\ finished' = finished

\* The step is the call of finish() of module n.
Finishes(n) == finished' = Append(finished, n)

\* What the last handler did at node n: the queue entries it accepted, the
\* queue entries it handed to a link, the messages it tail-dropped.
Entries(l, op, n) ==
  LET sel == SelectSeq(l, LAMBDA x : x.op = op /\ x.node = n)
  IN [i \in 1 .. Len(sel) |-> [msg |-> sel[i].msg, gate |-> sel[i].gate]]

\* The arrival times of the txFinishTimer events of node n.
Wakes(f, n) == {i \in 1 .. Len(f) : f[i].kind = "txFinishTimer" /\ f[i].node = n}
WakeTimes(f, n) == {f[i].dt : i \in Wakes(f, n)}

\* C1: the transmit queue of every node holds at most maxQueueSize messages
\* in every reachable state.
QueueBounded == \A n \in Nodes : Len(txQueue[n]) <= maxQueueSize

\* A node accepted a message that filled its queue while its link was busy.
QueueBoundedWitness ==
  \E n \in Nodes :
    /\ Len(txQueue[n]) = maxQueueSize
    /\ Entries(log, "enq", n) # <<>>
    /\ IsScheduled(fes, "txFinishTimer", n)

\* C2: a handler whose sendOrQueue met a full queue counts one drop per
\* refused message and nothing else; the refused message is not in the
\* queue, the queued messages keep their order, and when the handler
\* enqueued nothing the queue and the pending wake are as before.
TailDrop ==
  [][\A n \in Nodes :
       Entries(log', "drop", n) # <<>> =>
         /\ packetsDropped'[n] = packetsDropped[n] + Len(Entries(log', "drop", n))
         /\ txQueue[n] \o Entries(log', "enq", n)
              = Entries(log', "deq", n) \o txQueue'[n]
         /\ Entries(log', "enq", n) = <<>> =>
              /\ Len(txQueue[n]) >= maxQueueSize
              /\ txQueue'[n] = txQueue[n]
              /\ WakeTimes(fes', n) = WakeTimes(fes, n)]_vars

\* A handler of a node with a full queue had its message refused.
TailDropWitness ==
  \E n \in Nodes :
    /\ Entries(log, "drop", n) # <<>>
    /\ Entries(log, "enq", n) = <<>>
    /\ Len(txQueue[n]) = maxQueueSize

\* C4: every node has at most one txFinishTimer event pending.
OneWake == \A n \in Nodes : Cardinality(Wakes(fes, n)) <= 1

\* A message was queued behind another while the wake was already pending.
OneWakeWitness ==
  \E n \in Nodes :
    /\ Cardinality(Wakes(fes, n)) = 1
    /\ Len(txQueue[n]) >= 2
    /\ Entries(log, "enq", n) # <<>>
    /\ Entries(log, "deq", n) = <<>>

\* C5: in every step the queue of every node behaves as a FIFO: what was
\* queued followed by what the handler accepted is what the handler handed
\* to the links followed by what is queued now, whatever the gates.
Fifo ==
  [][\A n \in Nodes :
       IF Finishes(n)
         THEN Entries(log', "deq", n) = <<>>
         ELSE txQueue[n] \o Entries(log', "enq", n)
                = Entries(log', "deq", n) \o txQueue'[n]]_vars

\* A satellite handed a queued message to one gate while a message for
\* another gate waits behind it.
FifoWitness ==
  \E s \in Sats :
    /\ Entries(log, "deq", s) # <<>>
    /\ txQueue[s] # <<>>
    /\ Entries(log, "deq", s)[1].gate # Head(txQueue[s]).gate
    /\ \A k \in 1 .. Len(Entries(log, "enq", s)) :
         Entries(log, "enq", s)[k] # Entries(log, "deq", s)[1]

\* C6: the routing table of every satellite has at most one entry per
\* destination in every reachable state.
OneEntryPerDest ==
  \A s \in Sats : \A i, j \in 1 .. Len(routingTable[s]) :
    routingTable[s][i].dest = routingTable[s][j].dest => i = j

\* An advertisement named a destination the table already had, and the
\* table holds a learned entry beside the direct ones.
OneEntryPerDestWitness ==
  \E s \in Sats : \E k \in 1 .. Len(log) :
    /\ log[k].op = "adv" /\ log[k].node = s
    /\ \E a \in 1 .. Len(log[k].msg.adv) : \E i \in 1 .. Len(log[k].before) :
         log[k].before[i].dest = log[k].msg.adv[a].dest
    /\ \E i \in 1 .. Len(routingTable[s]) :
         routingTable[s][i].nextHop # routingTable[s][i].dest

\* The run has ended: a runtime error, the calls of finish(), or nothing
\* left the model can do.
Stopped == crashed \/ finished # <<>> \/ ~ENABLED Next

\* C3: every message accepted into a queue leaves it: whenever the queue of
\* a node is not empty, the node later hands its oldest message to a link
\* (unless the run ends first).
EveryMessageLeaves ==
  \A n \in Nodes :
    (txQueue[n] # <<>>) ~> (Entries(log, "deq", n) # <<>> \/ Stopped)

\* C7: the next hop of every routing-table entry is in the neighbour list
\* of its satellite in every reachable state.
NextHopIsNeighbor ==
  \A s \in Sats : \A i \in 1 .. Len(routingTable[s]) :
    \E j \in 1 .. Len(neighbors[s]) :
      neighbors[s][j].node = routingTable[s][i].nextHop

\* The advertisements of the message that improve on entry e of a table.
Improving(m, linkCost, e) ==
  {a \in 1 .. Len(m.adv) :
     m.adv[a].dest = e.dest /\ m.adv[a].cost + linkCost < e.cost}

\* C8: after an advertisement from S is processed, an entry the table had
\* is unchanged unless an advertised total (advertised cost + link cost) is
\* strictly less than its cost; then it is (dest, S, total), of lower cost.
StrictImprovement ==
  \A k \in 1 .. Len(log) :
    log[k].op = "adv" =>
      LET s == log[k].node
          m == log[k].msg
          linkCost == LinkCost(neighbors[s], m.src)
      IN /\ Len(routingTable[s]) >= Len(log[k].before)
         /\ \A i \in 1 .. Len(log[k].before) :
              LET e == log[k].before[i]
                  better == Improving(m, linkCost, e)
              IN IF better = {}
                   THEN routingTable[s][i] = e
                   ELSE /\ \E a \in better :
                             routingTable[s][i] =
                               [dest |-> e.dest, nextHop |-> m.src,
                                cost |-> m.adv[a].cost + linkCost]
                        /\ routingTable[s][i].cost < e.cost

\* An advertisement replaced an entry learned from another satellite.
StrictImprovementWitness ==
  \E k \in 1 .. Len(log) :
    /\ log[k].op = "adv"
    /\ \E i \in 1 .. Len(log[k].before) :
         /\ Improving(log[k].msg, LinkCost(neighbors[log[k].node], log[k].msg.src),
                      log[k].before[i]) # {}
         /\ log[k].before[i].nextHop # log[k].msg.src
         /\ routingTable[log[k].node][i].nextHop = log[k].msg.src

\* The data packets held in a transmit queue or travelling on a link.
InFlight ==
  Cardinality({i \in 1 .. Len(fes) : fes[i].kind = "msg" /\ fes[i].msg.type = "data"})
    + SumOver([n \in Nodes |->
                 Cardinality({i \in 1 .. Len(txQueue[n]) :
                                txQueue[n][i].msg.type = "data"})], Nodes)

\* C9: between handlers, the ground stations' packetsSent add up to the
\* packetsReceived plus the packetsDropped of all nodes plus the data
\* packets in flight.
Conservation ==
  SumOver(packetsSent, GSs)
    = SumOver(packetsReceived, Nodes) + SumOver(packetsDropped, Nodes) + InFlight

\* The data packets in the system: travelling, queued, or just delivered.
DataPackets ==
  {fes[i].msg : i \in {j \in 1 .. Len(fes) : fes[j].msg.type = "data"}}
    \cup UNION {{txQueue[n][i].msg : i \in 1 .. Len(txQueue[n])} : n \in Nodes}
    \cup {log[k].msg : k \in {j \in 1 .. Len(log) : log[j].op = "deliver"}}

\* C10: the hopCount of every data packet, travelling, queued or delivered,
\* is the number of satellites that forwarded it.
HopCountIsForwards ==
  \A m \in DataPackets : m.type = "data" => m.hop = Len(m.fwd)

\* A packet was delivered to a ground station after two satellites
\* forwarded it.
HopCountIsForwardsWitness ==
  \E k \in 1 .. Len(log) :
    /\ log[k].op = "deliver" /\ log[k].node \in GSs
    /\ log[k].msg.dst = log[k].node
    /\ log[k].msg.hop = 2
    /\ Len(log[k].msg.fwd) = 2 /\ log[k].msg.fwd[1] # log[k].msg.fwd[2]

\* C11: in the chain 1 - 2 - 3 - 4, once two topology ticks have passed and
\* the advertisements they triggered are delivered, the routing table of
\* satellite 1 has the entry (4, next hop 2, d(1,2) + d(2,3) + d(3,4)).
ChainConverges ==
  (/\ scn \in {ChainNet(o) : o \in ChainOrbits}
   /\ toInit = <<>> /\ tick = 3 /\ phase > 0
   /\ \A i \in 1 .. Len(fes) : fes[i].kind # "msg")
    => \E i \in 1 .. Len(routingTable[1]) :
         routingTable[1][i] =
           [dest |-> 4, nextHop |-> 2,
            cost |-> SatDistance(pos[1], pos[2]) + SatDistance(pos[2], pos[3])
                       + SatDistance(pos[3], pos[4])]

\* The queue-drop scenario: ground station g hands n data packets to
\* sendOrQueue at one instant.
RECURSIVE EnqueueBurst(_, _, _)
EnqueueBurst(w0, g, n) ==
  Once({(
    IF n = 0 THEN w
    ELSE EnqueueBurst(GsSendOrQueue(w, g, DataPacket(g, 0, n), 0), g, n - 1)
  ) : w \in {w0}})

\* C12: a ground station whose link is connected and idle and whose queue
\* is empty, handing maxQueueSize + 1 packets to sendOrQueue at one instant,
\* has exactly one of them tail-dropped.
BurstDropsOne ==
  \A g \in GSs :
    (toInit = <<>> /\ finished = <<>> /\ ~crashed /\ gsLink[g].conn /\ gsLink[g].busy = 0
       /\ txQueue[g] = <<>>)
      => LET w == EnqueueBurst(World, g, maxQueueSize + 1)
         IN /\ Len(Entries(w.log, "drop", g)) = 1
            /\ w.packetsDropped[g] = packetsDropped[g] + 1

\* Satellite s is about to route a data packet for which its routing table
\* has no entry: a packet that arrives for another node, or the packet of
\* its traffic timer when no destination it can draw has an entry.
NoRouteAt(s) ==
  \/ /\ Handles("msg", s) /\ Head(fes).msg.type = "data"
     /\ Head(fes).msg.dst # s
     /\ ~RouteFound(routingTable[s], Head(fes).msg.dst)
  \/ /\ Handles("trafficTimer", s)
     /\ \A dest \in SatDests(s) : ~RouteFound(routingTable[s], dest)

\* C13: a satellite that has a data packet to route and no entry for its
\* destination counts exactly one drop, sends and queues nothing, and runs on.
NoRouteCounted ==
  [][\A s \in Sats :
       NoRouteAt(s) =>
         /\ packetsDropped'[s] = packetsDropped[s] + 1
         /\ txQueue' = txQueue
         /\ \A i \in 1 .. Len(fes') : fes'[i].kind = "msg" => fes'[i] \in
               {fes[j] : j \in 1 .. Len(fes)}
         /\ ~crashed']_vars

\* The gate the head of the queue of node n targets is connected.
HeadGateConnected(n) ==
  IF n \in GSs
    THEN gsGateSize[n] > 0 /\ gsLink[n].conn
    ELSE satGates[n][Head(txQueue[n]).gate + 1].conn

\* C14: processTxQueue, run by the self-wake of a node whose head message
\* targets a gate that is no longer connected, takes the message from the
\* queue and counts a drop, and the run goes on.
DisconnectedHeadDropped ==
  [][\A n \in Nodes :
       (Handles("txFinishTimer", n) /\ txQueue[n] # <<>> /\ ~HeadGateConnected(n))
         => /\ Len(txQueue'[n]) < Len(txQueue[n])
            /\ packetsDropped'[n] > packetsDropped[n]
            /\ ~crashed']_vars

\* The messages travelling on a link.
Travelling(f) == {f[i] : i \in {j \in 1 .. Len(f) : f[j].kind = "msg"}}

\* C15: the packet an unattached ground station generates is counted as
\* one drop; it is neither queued nor put on a link.
UnattachedDrops ==
  [][\A g \in GSs :
       (Handles("trafficTimer", g) /\ currentSatellite[g] = NoNode)
         => /\ packetsDropped'[g] = packetsDropped[g] + 1
            /\ txQueue' = txQueue
            /\ Entries(log', "enq", g) = <<>>
            /\ Travelling(fes') \subseteq Travelling(fes)]_vars

\* An unattached ground station has generated packets, all of them dropped
\* and none sent, twice in a row.
UnattachedDropsWitness ==
  \E g \in GSs :
    /\ currentSatellite[g] = NoNode
    /\ packetsSent[g] = 0
    /\ packetsDropped[g] = 2
    /\ txQueue[g] = <<>>

\* The next step is a handover step of ground station g: its handover
\* timer, or the handover of its initialize().
HandoverStepOf(g) ==
  \/ Handles("handoverTimer", g)
  \/ toInit # <<>> /\ Head(toInit) = g

\* The satellites within maxRange of ground station g, the boundary included.
Visible(g) == {s \in scn.sats : GsDistance(g, pos[s]) <= scn.maxRange[g]}

\* C16: after a handover step the serving satellite is a visible satellite
\* at minimum distance, and the station is unattached only when no
\* satellite is visible.
NearestInRange ==
  [][\A g \in GSs :
       HandoverStepOf(g) =>
         IF Visible(g) = {}
           THEN currentSatellite'[g] = NoNode
           ELSE /\ currentSatellite'[g] \in Visible(g)
                /\ \A t \in Visible(g) :
                     GsDistance(g, pos[currentSatellite'[g]]) <= GsDistance(g, pos[t])]_vars

\* C17: a ground station is either attached to satellite sat at gate idx,
\* with idx >= 0 and both directions of its link connected to that gate, or
\* unattached with index -1 and both directions disconnected; no other
\* satellite gate is connected to it.
HandoverConsistent ==
  \A g \in GSs :
    LET sat == currentSatellite[g]
        idx == currentSatGateIndex[g]
    IN /\ IF sat # NoNode
            THEN /\ idx >= 0 /\ idx < Len(satGates[sat])
                 /\ gsLink[g].conn /\ gsLink[g].sat = sat /\ gsLink[g].idx = idx
                 /\ satGates[sat][idx + 1].conn /\ satGates[sat][idx + 1].peer = g
            ELSE idx = -1 /\ ~gsLink[g].conn
       /\ \A s \in Sats : \A i \in 1 .. Len(satGates[s]) :
            satGates[s][i].conn /\ satGates[s][i].peer = g => s = sat /\ i = idx + 1

\* A ground station was switched from satellite a, whose gate is left
\* disconnected, to another satellite.
HandoverConsistentWitness ==
  \E g \in GSs : \E a \in Sats :
    /\ currentSatellite[g] \notin {NoNode, a}
    /\ \E i \in 1 .. Len(satGates[a]) : satGates[a][i] = NoGate
    /\ \A h \in GSs \ {g} : currentSatellite[h] = NoNode

\* The satellite ground station g is attached to is the nearest visible one:
\* it is within maxRange, the boundary included, and every other visible
\* satellite is farther away; or g is unattached and no satellite is visible.
BestIsCurrent(g) ==
  LET cur == currentSatellite[g]
  IN IF cur = NoNode THEN Visible(g) = {}
     ELSE /\ cur \in Visible(g)
          /\ \A t \in Visible(g) \ {cur} :
               GsDistance(g, pos[cur]) < GsDistance(g, pos[t])

\* C18: a handover step at which the nearest visible satellite is the one
\* the station is attached to (or none is visible while it is unattached)
\* leaves every gate, the link with its delay and busy time, the gate index
\* and the transmit queues as they are.
HandoverNoOp ==
  [][\A g \in GSs :
       (HandoverStepOf(g) /\ BestIsCurrent(g))
         => /\ satGates' = satGates
            /\ gsLink' = gsLink
            /\ gsGateSize' = gsGateSize
            /\ currentSatellite' = currentSatellite
            /\ currentSatGateIndex' = currentSatGateIndex
            /\ txQueue' = txQueue]_vars

\* C19: no data packet, travelling, queued or delivered, has a satellite
\* as its destination, and packetsReceived of every satellite is 0.
SatellitesOnlyRoute ==
  /\ \A m \in DataPackets : m.type = "data" => m.dst \notin Sats
  /\ \A s \in Sats : packetsReceived[s] = 0

\* The time the link behind gate gi of node n stays busy (busy_until - now).
LinkBusy(n, gi) == IF n \in GSs THEN gsLink[n].busy ELSE satGates[n][gi + 1].busy

\* C21: a node hands a message to a link only when the link is not busy
\* (now >= busy_until), and a self-wake that finds the link of the head
\* not busy (now = busy_until included) hands the head to it at once.
HoldWhileBusy ==
  [][\A n \in Nodes :
       /\ \A k \in 1 .. Len(log') :
            (log'[k].op = "deq" /\ log'[k].node = n) =>
              /\ LinkBusy(n, log'[k].gate) = 0
              /\ \A j \in 1 .. k - 1 :
                   (log'[j].op = "deq" /\ log'[j].node = n
                      /\ log'[j].gate = log'[k].gate) => log'[j].msg.type # "data"
       /\ (/\ Handles("txFinishTimer", n) /\ txQueue[n] # <<>>
           /\ HeadGateConnected(n)
           /\ LinkBusy(n, Head(txQueue[n]).gate) = 0)
            => /\ Entries(log', "deq", n) = <<Head(txQueue[n])>>
               /\ txQueue'[n] = Tail(txQueue[n])]_vars

\* A self-wake has just handed the head of a queue to its link, which is
\* now busy with it, while another message waits.
HoldWhileBusyWitness ==
  \E n \in Nodes :
    /\ Len(Entries(log, "deq", n)) = 1
    /\ Entries(log, "enq", n) = <<>>
    /\ LinkBusy(n, Entries(log, "deq", n)[1].gate) > 0
    /\ txQueue[n] # <<>>

\* C23: the handler that ran updateRoutingTable at satellite s leaves a
\* table with exactly one entry per neighbour of s, (neighbour, neighbour,
\* distance), in the order of the neighbour list, and nothing else.
TableIsDirect ==
  \A k \in 1 .. Len(log) :
    log[k].op = "rebuild" =>
      LET s == log[k].node
          rt == routingTable[s]
          nb == neighbors[s]
      IN /\ Len(rt) = Len(nb)
         /\ \A j \in 1 .. Len(nb) :
              rt[j] = [dest |-> nb[j].node, nextHop |-> nb[j].node,
                       cost |-> nb[j].distance]
         /\ \A i, j \in 1 .. Len(nb) : nb[i].node = nb[j].node => i = j

\* The tick removed a route the satellite had learned from an advertisement.
TableIsDirectWitness ==
  \E k \in 1 .. Len(log) :
    /\ log[k].op = "rebuild"
    /\ \E i \in 1 .. Len(log[k].before) :
         /\ log[k].before[i].nextHop # log[k].before[i].dest
         /\ ~RouteFound(routingTable[log[k].node], log[k].before[i].dest)
    /\ routingTable[log[k].node] # <<>>

\* What satellite s handed to sendOrQueue in the step, in order.
Submitted(l, s) ==
  SelectSeq(l, LAMBDA e : e.node = s /\ e.op \in {"enq", "drop"})

InRangeGates(s) ==
  {i \in 1 .. Len(satGates[s]) :
     /\ satGates[s][i].conn
     /\ \/ satGates[s][i].peer \in GSs
        \/ /\ satGates[s][i].peer \in Sats
           /\ SatDistance(pos[s], pos[satGates[s][i].peer]) <= scn.maxISLRange[s]}

\* C25: after the tick of satellite s its neighbour list holds, once each
\* and in gate order, exactly the peers behind a connected gate that are
\* ground stations or satellites no farther than maxISLRange, every entry
\* with the index of its gate; a connected satellite farther away is absent.
NeighborsAreInRangePeers ==
  \A k \in 1 .. Len(log) :
    log[k].op = "rebuild" =>
      LET s == log[k].node
          nb == neighbors[s]
      IN /\ {nb[j].gate + 1 : j \in 1 .. Len(nb)} = InRangeGates(s)
         /\ \A j \in 1 .. Len(nb) : nb[j].node = satGates[s][nb[j].gate + 1].peer
         /\ \A i, j \in 1 .. Len(nb) : i < j => nb[i].gate < nb[j].gate

\* A tick left a connected satellite out of the list for its distance while
\* another peer stayed in.
NeighborsAreInRangePeersWitness ==
  \E k \in 1 .. Len(log) :
    /\ log[k].op = "rebuild"
    /\ neighbors[log[k].node] # <<>>
    /\ \E i \in 1 .. Len(satGates[log[k].node]) :
         /\ satGates[log[k].node][i].conn
         /\ satGates[log[k].node][i].peer \in Sats
         /\ i \notin InRangeGates(log[k].node)

\* C26: after a topology tick of satellite s, every connected inter-satellite
\* link of s whose length has changed since the start has the delay
\* d / c + processing delay of its current length d.
IslDelayRecomputed ==
  \A k \in 1 .. Len(log) :
    (log[k].op = "rebuild" /\ tick > 1) =>
      LET s == log[k].node
      IN \A i \in 1 .. Len(satGates[s]) :
           LET g == satGates[s][i]
           IN (/\ g.conn /\ g.peer \in Sats
               /\ SatDistance(pos[s], pos[g.peer])
                    # SatDistance(scn.orbit[s][1], scn.orbit[g.peer][1]))
                => g.delay = LinkDelay(SatDistance(pos[s], pos[g.peer]))

\* C27: whenever a satellite has processed an advertisement, the source of
\* the advertisement is in the neighbour list of the satellite, so that the
\* link cost it added is the cached distance to the source.
AdvertSourceIsNeighbor ==
  \A k \in 1 .. Len(log) :
    log[k].op = "adv" =>
      \E j \in 1 .. Len(neighbors[log[k].node]) :
        /\ neighbors[log[k].node][j].node = log[k].msg.src
        /\ LinkCost(neighbors[log[k].node], log[k].msg.src)
             = neighbors[log[k].node][j].distance

\* C28: a data packet that reaches satellite s on its way to another node
\* and finds no route there increases packetsDropped of s by one and leaves
\* packetsForwarded of s as it was.
ForwardedCountsRouted ==
  [][\A s \in Sats :
       (/\ Handles("msg", s) /\ Head(fes).msg.type = "data"
        /\ Head(fes).msg.dst # s
        /\ ~RouteFound(routingTable[s], Head(fes).msg.dst))
         => /\ packetsDropped'[s] = packetsDropped[s] + 1
            /\ packetsForwarded'[s] = packetsForwarded[s]]_vars

\* C29: after the tick of satellite s, the distance of every ground station
\* in its neighbour list, and the cost of the direct route to that ground
\* station, is the distance between the position of s and the ground station.
GsDistanceIsMeasured ==
  \A k \in 1 .. Len(log) :
    log[k].op = "rebuild" =>
      LET s == log[k].node
      IN \A j \in 1 .. Len(neighbors[s]) :
           neighbors[s][j].node \in GSs =>
             /\ neighbors[s][j].distance = GsDistance(neighbors[s][j].node, pos[s])
             /\ \A i \in 1 .. Len(routingTable[s]) :
                  (/\ routingTable[s][i].dest = neighbors[s][j].node
                   /\ routingTable[s][i].nextHop = neighbors[s][j].node)
                    => routingTable[s][i].cost
                         = GsDistance(neighbors[s][j].node, pos[s])

\* The nodes in the neighbour list of satellite s.
NeighborNodes(s) == {neighbors[s][j].node : j \in 1 .. Len(neighbors[s])}

\* Satellite d is at most two inter-satellite links away from satellite s.
WithinTwoHops(s, d) ==
  \/ {s, d} \in scn.isl
  \/ \E t \in scn.sats : {s, t} \in scn.isl /\ {t, d} \in scn.isl

\* A satellite submits advertisements only in the handler that has just
\* rebuilt its table, never in the one that processed an advertisement, and
\* they list its neighbours of that moment and itself, nothing else.
AdvertsListNeighbors ==
  \A k \in 1 .. Len(log) :
    (log[k].op \in {"enq", "drop"} /\ log[k].msg.type = "routing") =>
      /\ log[k].msg.src = log[k].node
      /\ \E r \in 1 .. Len(log) : log[r].op = "rebuild" /\ log[r].node = log[k].node
      /\ \A j \in 1 .. Len(log) : log[j].op # "adv"
      /\ \A a \in 1 .. Len(log[k].msg.adv) :
           log[k].msg.adv[a].dest \in NeighborNodes(log[k].node) \cup {log[k].node}

\* No satellite holds a route to a satellite more than two links away.
SatRoutesWithinTwoHops ==
  \A s \in Sats : \A i \in 1 .. Len(routingTable[s]) :
    routingTable[s][i].dest \in Sats => WithinTwoHops(s, routingTable[s][i].dest)

\* C30: advertisements list only the neighbours of the sender at its tick
\* and the sender; every routing-table entry has as destination a node of
\* the current neighbour list or a node that was a neighbour of its next
\* hop (another node than the next hop, which is a satellite); no satellite
\* holds a route to a destination more than two hops away.
RoutesAreNeighborsOfNeighbors ==
  /\ AdvertsListNeighbors
  /\ \A s \in Sats : \A i \in 1 .. Len(routingTable[s]) :
       LET e == routingTable[s][i]
       IN \/ e.dest \in NeighborNodes(s)
          \/ e.dest # e.nextHop /\ e.nextHop \in Sats
  /\ SatRoutesWithinTwoHops

\* C31: between handlers, a node whose transmit queue is not empty and whose
\* head targets a connected gate has its txFinishTimer scheduled.
WakePending ==
  \A n \in Nodes :
    (~crashed /\ txQueue[n] # <<>> /\ HeadGateConnected(n))
      => IsScheduled(fes, "txFinishTimer", n)

\* C32: between handlers, every entry of the neighbour list of a satellite
\* names a gate of the satellite that is connected, to the node of the entry.
NeighborGatesConnected ==
  \A s \in Sats : \A j \in 1 .. Len(neighbors[s]) :
    /\ neighbors[s][j].gate + 1 \in 1 .. Len(satGates[s])
    /\ satGates[s][neighbors[s][j].gate + 1].conn
    /\ satGates[s][neighbors[s][j].gate + 1].peer = neighbors[s][j].node

\* Satellite s takes up a data packet for whose destination its routing
\* table has an entry: a packet arriving for another node, or the packet its
\* traffic timer generates and routes.
RoutedAt(s) ==
  \/ /\ Handles("msg", s) /\ Head(fes).msg.type = "data"
     /\ Head(fes).msg.dst # s
     /\ RouteFound(routingTable[s], Head(fes).msg.dst)
  \/ /\ Handles("trafficTimer", s) /\ created' = created + 1

\* C33: a satellite that handles a data packet for which its table has an
\* entry hands it to sendOrQueue (where it is queued, sent, or dropped and
\* counted) or counts it in packetsDropped; the packet is never left
\* without being sent, queued or counted.
RoutedOrCounted ==
  [][\A s \in Sats :
       RoutedAt(s) =>
         \/ \E k \in 1 .. Len(log') :
              /\ log'[k].node = s /\ log'[k].op \in {"enq", "drop"}
              /\ log'[k].msg.type = "data"
         \/ packetsDropped'[s] = packetsDropped[s] + 1]_vars

\* C35: packetsReceived of a ground station changes only when a data packet
\* addressed to that ground station is delivered to it, and then by one; a
\* routing advertisement delivered to it leaves the counter alone.
GsReceivesOwnPackets ==
  [][\A g \in GSs :
       packetsReceived'[g] # packetsReceived[g] =>
         /\ Handles("msg", g)
         /\ Head(fes).msg.type = "data"
         /\ Head(fes).msg.dst = g
         /\ packetsReceived'[g] = packetsReceived[g] + 1]_vars

\* A ground station has counted its second packet, one that a single
\* satellite forwarded to it.
GsReceivesOwnPacketsWitness ==
  \E k \in 1 .. Len(log) :
    /\ log[k].op = "deliver" /\ log[k].node \in GSs
    /\ log[k].msg.dst = log[k].node
    /\ log[k].msg.fwd # <<>>
    /\ packetsReceived[log[k].node] = 2

\* Ground station g is attached by the step: it has a satellite after the
\* step that it did not have before, or holds another gate of it.
Attached(g) ==
  /\ currentSatellite'[g] # NoNode
  /\ \/ currentSatellite'[g] # currentSatellite[g]
     \/ currentSatGateIndex'[g] # currentSatGateIndex[g]

\* C36: an attachment gives the ground station the gate index that was the
\* size of the satellite's gate array before it and grows the array by
\* one; no gate array ever shrinks, a gate that was disconnected stays
\* disconnected, and two ground stations attached to one satellite hold
\* different gate indices.
GateIndexIsFresh ==
  [][/\ \A g \in GSs :
          Attached(g) =>
            /\ currentSatGateIndex'[g] = Len(satGates[currentSatellite'[g]])
            /\ Len(satGates'[currentSatellite'[g]])
                 = Len(satGates[currentSatellite'[g]]) + 1
     /\ \A s \in Sats :
          /\ Len(satGates'[s]) >= Len(satGates[s])
          /\ \A i \in 1 .. Len(satGates[s]) :
               ~satGates[s][i].conn => ~satGates'[s][i].conn
     /\ \A g, h \in GSs :
          (g # h /\ currentSatellite'[g] # NoNode
             /\ currentSatellite'[g] = currentSatellite'[h])
            => currentSatGateIndex'[g] # currentSatGateIndex'[h]]_vars

\* A ground station is attached to a satellite at a gate above one that a
\* detach had left disconnected.
GateIndexIsFreshWitness ==
  \E g \in GSs :
    /\ currentSatellite[g] # NoNode
    /\ \E i \in 1 .. Len(satGates[currentSatellite[g]]) :
         /\ satGates[currentSatellite[g]][i] = NoGate
         /\ i - 1 < currentSatGateIndex[g]

====
